---- MODULE Spec2Model ----
(***************************************************************************)
(* Model of src/llm_auditor.py: the LLMAuditor audit engine                *)
(* (analyze_schema, get_schema_example, analyze_page).                     *)
(*                                                                         *)
(* A parsed document (the BeautifulSoup object) is a record of what the    *)
(* code queries from it:                                                   *)
(*   scripts   - the <script type="application/ld+json"> elements, in      *)
(*               document order (find_all result of line 63);              *)
(*   microdata - the elements carrying an itemtype attribute (line 85);    *)
(*   sections  - the div/section elements (line 198);                      *)
(*   h1, h2, h3, p, lists, images, links - len(find_all(..)) counts;       *)
(*   words     - len(soup.get_text().split()).                             *)
(* Text that the code takes apart is a sequence of atoms: an id or a class *)
(* token is a sequence of characters, an itemtype is a sequence of "/"     *)
(* atoms and slash-free chunks.  Message strings are the source's strings  *)
(* with Polish diacritics written in ASCII.                                *)
(***************************************************************************)
EXTENDS Naturals, Integers, Sequences, FiniteSets, TLC

VARIABLES schema_types, doc, audit, log

vars == <<schema_types, doc, audit, log>>

(* ------------------------------ bounds --------------------------------- *)
MaxScripts == 2
MaxItems == 2
MaxSections == 2
MaxH1 == 2
MaxAudits == 3

(* ------------------------- LLMAuditor.__init__ ------------------------- *)
SchemaTypesInit ==
  [t \in {"Article", "Product", "Organization", "WebPage", "FAQPage"} |->
     CASE t = "Article" ->
            [required |-> <<"headline", "author", "datePublished">>,
             recommended |-> <<"description", "image", "publisher">>]
       [] t = "Product" ->
            [required |-> <<"name", "description", "offers">>,
             recommended |-> <<"image", "brand", "review">>]
       [] t = "Organization" ->
            [required |-> <<"name", "url">>,
             recommended |-> <<"logo", "contactPoint", "address">>]
       [] t = "WebPage" ->
            [required |-> <<"name", "description">>,
             recommended |-> <<"publisher", "dateModified">>]
       [] t = "FAQPage" ->
            [required |-> <<"mainEntity">>,
             recommended |-> <<"description">>]]

(* ------------------------ Python value helpers ------------------------- *)
(* A JSON value found under "@type": tag "none" is Python None (the key is *)
(* absent, dict.get default), "str" a string, "list" a JSON array holding  *)
(* the string val (val = "" stands for the empty array).                   *)
PyNone == [tag |-> "none", val |-> ""]
PyStr(s) == [tag |-> "str", val |-> s]
PyList(s) == [tag |-> "list", val |-> s]

(* Python truthiness: None, "" and [] are falsy. *)
Truthy(v) == v.tag # "none" /\ v.val # ""

(* A list is unhashable: `v in dict` raises TypeError for it. *)
Hashable(v) == v.tag # "list"

(* json.loads(script.string): raises when the script has no single string  *)
(* child (script.string is None) or when the text is not valid JSON.       *)
JsonLoadsRaises(script) == script.string = "none" \/ ~script.valid

(* isinstance(data, dict) *)
IsDict(script) == script.value = "object"

(* ------------------------- analyze_schema ------------------------------ *)
(* Faulty variant: found_types and missing_required kept from the previous call. *)
ReusedSchemaData ==
  IF log # <<>> /\ log[Len(log)].audit.returned = "PageAudit"
    THEN [has_schema |-> FALSE, has_json_ld |-> FALSE,
          found_types |-> log[Len(log)].audit.schema_analysis.found_types,
          missing_required |-> log[Len(log)].audit.schema_analysis.missing_required,
          recommendations |-> <<>>]
    ELSE [has_schema |-> FALSE, has_json_ld |-> FALSE, found_types |-> <<>>,
          missing_required |-> <<>>, recommendations |-> <<>>]

(* The schema_data dictionary a call starts from (lines 54-60). *)
NewSchemaData ==
  [has_schema |-> FALSE, has_json_ld |-> FALSE, found_types |-> <<>>,
   missing_required |-> <<>>, recommendations |-> <<>>]

(* Faulty variant: recommended fields checked as well. *)
RequiredOrRecommended(types, t) == types[t].required \o types[t].recommended

(* self.schema_types[t]['required'] (lines 75, 94) *)
RequiredFields(types, t) == types[t].required

(* Faulty variant: a type already found is not appended again. *)
AppendTypeDedup(found, t) ==
  IF \E i \in DOMAIN found : found[i] = t THEN found ELSE Append(found, t)

(* schema_data['found_types'].append(t) (lines 72, 91) *)
AppendType(found, t) == Append(found, t)

(* The inner loops of lines 75-80 and 94-99: one {type, field} entry per   *)
(* required field that is not present, in registry order.                  *)
RECURSIVE AppendMissing(_, _, _, _, _)
AppendMissing(missing, t, required, present, i) ==
  IF i > Len(required) THEN missing
  ELSE AppendMissing(
         IF required[i] \notin present
           THEN Append(missing, [type |-> t, field |-> required[i]])
           ELSE missing,
         t, required, present, i + 1)

(* The body of the try block for one script (lines 68-80).  raised tells   *)
(* whether the block left through the bare except of line 81.             *)
ProcessScript(sd, script, types) ==
  IF JsonLoadsRaises(script) THEN [sd |-> sd, raised |-> TRUE]
  ELSE IF ~IsDict(script) THEN [sd |-> sd, raised |-> FALSE]
  ELSE IF ~Truthy(script.type) THEN [sd |-> sd, raised |-> FALSE]
  ELSE LET sd1 == [sd EXCEPT !.found_types = AppendType(@, script.type)]
       IN IF ~Hashable(script.type) THEN [sd |-> sd1, raised |-> TRUE]
          ELSE IF script.type.val \in DOMAIN types
            THEN [sd |-> [sd1 EXCEPT !.missing_required =
                             AppendMissing(@, script.type.val,
                                           RequiredFields(types, script.type.val),
                                           script.keys, 1)],
                  raised |-> FALSE]
            ELSE [sd |-> sd1, raised |-> FALSE]

(* Faulty variant: an exception ends the loop. *)
BreakOnException(raised, i, n) == IF raised THEN n + 1 ELSE i + 1

(* except: continue (lines 81-82): the loop goes on with the next script. *)
ContinueAt(raised, i, n) == i + 1

(* for script in json_ld_scripts (lines 66-82) *)
RECURSIVE JsonLdLoop(_, _, _, _)
JsonLdLoop(sd, scripts, types, i) ==
  IF i > Len(scripts) THEN sd
  ELSE LET r == ProcessScript(sd, scripts[i], types)
       IN JsonLdLoop(r.sd, scripts, types, ContinueAt(r.raised, i, Len(scripts)))

(* item.get('itemtype', '').split('/'): the segments between "/" atoms;    *)
(* an itemtype is kept in the form where a slash-free chunk is one atom,   *)
(* so a segment is "" or one chunk.                                        *)
RECURSIVE SplitSlash(_, _, _)
SplitSlash(s, i, cur) ==
  IF i > Len(s) THEN <<cur>>
  ELSE IF s[i] = "/" THEN <<cur>> \o SplitSlash(s, i + 1, "")
  ELSE SplitSlash(s, i + 1, s[i])

(* Faulty variant: the first segment instead of the last. *)
FirstSegment(s) == SplitSlash(s, 1, "")[1]

(* .split('/')[-1] (line 89) *)
LastSegment(s) == LET parts == SplitSlash(s, 1, "") IN parts[Len(parts)]

(* The body of the microdata loop for one element (lines 89-99);           *)
(* item.find(attrs={"itemprop": f}) finds a descendant, item.props being   *)
(* the itemprop values of the element's descendants.                       *)
ProcessItem(sd, item, types) ==
  LET itemtype == LastSegment(item.itemtype)
  IN IF itemtype = "" THEN sd
     ELSE LET sd1 == [sd EXCEPT !.found_types = AppendType(@, PyStr(itemtype))]
          IN IF itemtype \in DOMAIN types
               THEN [sd1 EXCEPT !.missing_required =
                        AppendMissing(@, itemtype, RequiredFields(types, itemtype),
                                      item.props, 1)]
               ELSE sd1

(* for item in microdata (lines 88-99) *)
RECURSIVE MicrodataLoop(_, _, _, _)
MicrodataLoop(sd, items, types, i) ==
  IF i > Len(items) THEN sd
  ELSE MicrodataLoop(ProcessItem(sd, items[i], types), items, types, i + 1)

(* if json_ld_scripts: (line 64) *)
HasJsonLdScripts(scripts) == Len(scripts) > 0

(* Faulty variant: the flag set only by an element with a type. *)
SomeTypedItem(items) == \E i \in DOMAIN items : LastSegment(items[i].itemtype) # ""

(* if microdata: (line 86) *)
HasMicrodata(items) == Len(items) > 0

(* ------------------------ get_schema_example --------------------------- *)
Examples ==
  [t \in {"Article", "Product", "Organization", "WebPage", "FAQPage"} |->
     CASE t = "Article" ->
            [f \in {"headline", "author", "datePublished"} |->
               CASE f = "headline" -> "{\"@type\": \"Article\", \"headline\": \"Tytul artykulu\"}"
                 [] f = "author" -> "{\"@type\": \"Article\", \"author\": {\"@type\": \"Person\", \"name\": \"Imie Nazwisko\"}}"
                 [] f = "datePublished" -> "{\"@type\": \"Article\", \"datePublished\": \"2024-01-01\"}"]
       [] t = "Product" ->
            [f \in {"name", "description", "offers"} |->
               CASE f = "name" -> "{\"@type\": \"Product\", \"name\": \"Nazwa produktu\"}"
                 [] f = "description" -> "{\"@type\": \"Product\", \"description\": \"Szczegolowy opis produktu\"}"
                 [] f = "offers" -> "{\"@type\": \"Product\", \"offers\": {\"@type\": \"Offer\", \"price\": \"99.99\", \"priceCurrency\": \"PLN\"}}"]
       [] t = "Organization" ->
            [f \in {"name", "url"} |->
               CASE f = "name" -> "{\"@type\": \"Organization\", \"name\": \"Nazwa organizacji\"}"
                 [] f = "url" -> "{\"@type\": \"Organization\", \"url\": \"https://www.example.com\"}"]
       [] t = "WebPage" ->
            [f \in {"name", "description"} |->
               CASE f = "name" -> "{\"@type\": \"WebPage\", \"name\": \"Tytul strony\"}"
                 [] f = "description" -> "{\"@type\": \"WebPage\", \"description\": \"Opis strony\"}"]
       [] t = "FAQPage" ->
            [f \in {"mainEntity"} |->
               "{\"@type\": \"FAQPage\", \"mainEntity\": [{\"@type\": \"Question\", \"name\": \"Pytanie?\", \"acceptedAnswer\": {\"@type\": \"Answer\", \"text\": \"Odpowiedz.\"}}]}"]]

(* Faulty variant: no example registered for url. *)
get_schema_example_no_url(schema_type, field) ==
  IF schema_type \in DOMAIN Examples
       /\ field \in DOMAIN Examples[schema_type]
       /\ field # "url"
    THEN Examples[schema_type][field]
    ELSE ""

(* examples.get(schema_type, {}).get(field, '') (line 179) *)
get_schema_example(schema_type, field) ==
  IF schema_type \in DOMAIN Examples /\ field \in DOMAIN Examples[schema_type]
    THEN Examples[schema_type][field]
    ELSE ""

(* The "basic" recommendation of lines 103-125. *)
BasicFix ==
  [type |-> "basic",
   description |-> <<"Dodaj podstawowe dane strukturalne schema.org">>,
   code |-> "<script type=\"application/ld+json\">{\"@context\": \"https://schema.org\", \"@type\": \"WebPage\", \"name\": \"Tytul strony\", \"description\": \"Opis strony\", \"publisher\": {\"@type\": \"Organization\", \"name\": \"Nazwa organizacji\", \"logo\": {\"@type\": \"ImageObject\", \"url\": \"URL logo\"}}, \"dateModified\": \"2024-01-01\"}</script>"]

(* The "missing_field" recommendation of lines 134-138; the description is *)
(* the f-string's pieces; descriptions are sequences of pieces.            *)
MissingFieldFix(schema_type, field, example) ==
  [type |-> "missing_field",
   description |-> <<"Dodaj wymagane pole", field, "dla typu", schema_type>>,
   code |-> example]

(* Faulty variant: `or` in place of `and`. *)
NoSchemaOrNoJsonLd(sd) == ~sd.has_schema \/ ~sd.has_json_ld

(* if not has_schema and not has_json_ld (line 102) *)
NeedsBasicFix(sd) == ~sd.has_schema /\ ~sd.has_json_ld

(* for missing in schema_data['missing_required'] (lines 128-138) *)
RECURSIVE FixLoop(_, _, _, _)
FixLoop(recs, missing, types, i) ==
  IF i > Len(missing) THEN recs
  ELSE LET schema_type == missing[i].type
           field == missing[i].field
           example == get_schema_example(schema_type, field)
       IN FixLoop(
            IF schema_type \in DOMAIN types /\ example # ""
              THEN Append(recs, MissingFieldFix(schema_type, field, example))
              ELSE recs,
            missing, types, i + 1)

analyze_schema(soup, types, schema_data) ==
  LET sd1 == IF HasJsonLdScripts(soup.scripts)
               THEN JsonLdLoop([schema_data EXCEPT !.has_json_ld = TRUE],
                               soup.scripts, types, 1)
               ELSE schema_data
      sd2 == IF HasMicrodata(soup.microdata)
               THEN MicrodataLoop([sd1 EXCEPT !.has_schema = TRUE],
                                  soup.microdata, types, 1)
               ELSE sd1
      sd3 == IF NeedsBasicFix(sd2)
               THEN [sd2 EXCEPT !.recommendations = Append(@, BasicFix)]
               ELSE sd2
  IN [sd3 EXCEPT !.recommendations = FixLoop(@, sd3.missing_required, types, 1)]

(* --------------------------- analyze_page ------------------------------ *)
F == <<"f", "a", "q">>

(* str.lower() over the characters that occur in the ids of the model. *)
LowerChar(c) ==
  CASE c = "F" -> "f" [] c = "A" -> "a" [] c = "Q" -> "q" [] OTHER -> c

Lower(s) == [i \in DOMAIN s |-> LowerChar(s[i])]

(* `sub in s` for two strings: s has sub as a contiguous piece. *)
Contains(sub, s) ==
  \E k \in 0..(Len(s) - Len(sub)) : SubSeq(s, k + 1, k + Len(sub)) = sub

(* Faulty variant: substring match inside a token. *)
ClassContainsFaq(class) == \E i \in DOMAIN class : Contains(F, class[i])

(* 'faq' in section.get('class', []) (line 199): class is the list of the  *)
(* attribute's whitespace-separated tokens, so `in` is list membership.    *)
ClassHasFaq(class) == \E i \in DOMAIN class : class[i] = F

(* 'faq' in section.get('id', '').lower() (line 199) *)
IdHasFaq(id) == Contains(F, Lower(id))

(* for section in soup.find_all(['div', 'section']) (lines 197-200);       *)
(* section.text is the element's get_text(strip=True).                    *)
RECURSIVE FaqLoop(_, _, _)
FaqLoop(faq_sections, sections, i) ==
  IF i > Len(sections) THEN faq_sections
  ELSE FaqLoop(
         IF ClassHasFaq(sections[i].class) \/ IdHasFaq(sections[i].id)
           THEN Append(faq_sections, sections[i].text)
           ELSE faq_sections,
         sections, i + 1)

AddH1 == "Dodaj naglowek H1"
OneH1 == "Upewnij sie, ze masz tylko jeden naglowek H1 na stronie"
AddH2 == "Dodaj naglowki H2 do lepszej strukturyzacji tresci"
AddSchema == "Dodaj dane strukturalne schema.org"
MoreParagraphs == "Rozbuduj tresc strony - dodaj wiecej paragrafow"
AddLists == "Dodaj listy wypunktowane lub numerowane dla lepszej czytelnosci"
AddImages == "Dodaj obrazy do wizualnego wzbogacenia tresci"
MoreWords == "Rozbuduj tresc - strona powinna zawierac minimum 300 slow"
AddFaq == "Dodaj sekcje FAQ z najczesciej zadawanymi pytaniami"
MoreLinks == "Dodaj wiecej linkow wewnetrznych do powiazanych tresci"

MinParagraphs == 3
MinWords == 300
MinLinks == 3

(* Faulty variant: only-one-H1 emitted from one h1 on. *)
H1RuleOffByOne(recs, h1) ==
  IF h1 = 0 THEN Append(recs, AddH1)
  ELSE IF h1 >= 1 THEN Append(recs, OneH1)
  ELSE recs

(* lines 213-216 *)
H1Rule(recs, h1) ==
  IF h1 = 0 THEN Append(recs, AddH1)
  ELSE IF h1 > 1 THEN Append(recs, OneH1)
  ELSE recs

(* one `if cond: recommendations.append(msg)` statement *)
AppendIf(recs, cond, msg) == IF cond THEN Append(recs, msg) ELSE recs

(* if not has_schema and not has_json_ld (line 221) *)
Rule3(schema_analysis) ==
  ~schema_analysis.has_schema /\ ~schema_analysis.has_json_ld

(* lines 212-240 *)
Recommendations(headings, schema_analysis, content_analysis, faq_sections) ==
  LET r1 == H1Rule(<<>>, headings.h1)
      r2 == AppendIf(r1, headings.h2 = 0, AddH2)
      r3 == AppendIf(r2, Rule3(schema_analysis), AddSchema)
      r4 == AppendIf(r3, content_analysis.paragraphs < MinParagraphs, MoreParagraphs)
      r5 == AppendIf(r4, content_analysis.lists = 0, AddLists)
      r6 == AppendIf(r5, content_analysis.images = 0, AddImages)
      r7 == AppendIf(r6, content_analysis.word_count < MinWords, MoreWords)
      r8 == AppendIf(r7, faq_sections = <<>>, AddFaq)
  IN AppendIf(r8, content_analysis.links < MinLinks, MoreLinks)

(* The try block of analyze_page after the fetch (lines 184-255). *)
analyze_page(soup, types, schema_data) ==
  LET headings == [h1 |-> soup.h1, h2 |-> soup.h2, h3 |-> soup.h3]
      schema_analysis == analyze_schema(soup, types, schema_data)
      faq_sections == FaqLoop(<<>>, soup.sections, 1)
      content_analysis ==
        [paragraphs |-> soup.p, lists |-> soup.lists, images |-> soup.images,
         links |-> soup.links, word_count |-> soup.words]
  IN [returned |-> "PageAudit",
      has_schema |-> schema_analysis.has_schema,
      has_json_ld |-> schema_analysis.has_json_ld,
      headings_structure |-> headings,
      faq_sections |-> faq_sections,
      recommendations |->
        Recommendations(headings, schema_analysis, content_analysis, faq_sections),
      content_analysis |-> content_analysis,
      suggested_fixes |-> schema_analysis.recommendations,
      schema_analysis |-> schema_analysis]

(* except Exception: print(...); return None (lines 257-259) *)
NoneResult == [returned |-> "None"]

(* ------------------------- documents audited --------------------------- *)
SeqsUpTo(S, n) == UNION {[1..k -> S] : k \in 0..n}

Range(s) == {s[i] : i \in DOMAIN s}

Script(string, valid, value, type, keys) ==
  [string |-> string, valid |-> valid, value |-> value, type |-> type, keys |-> keys]

(* <script> with no single text child: script.string is None *)
NoStringScript == Script("none", FALSE, "none", PyNone, {})
(* text that is not JSON *)
InvalidJsonScript == Script("text", FALSE, "none", PyNone, {})
(* valid JSON that is an array, not an object *)
ArrayJsonScript == Script("text", TRUE, "array", PyNone, {})
(* {"name": ..} : no "@type" key *)
UntypedScript == Script("text", TRUE, "object", PyNone, {"name"})
(* {"@type": "", "name": ..} *)
EmptyTypeScript == Script("text", TRUE, "object", PyStr(""), {"name"})
(* {"@type": "Article", "headline": .., "image": ..} *)
ArticleScript == Script("text", TRUE, "object", PyStr("Article"), {"headline", "image"})
(* {"@type": "Organization", "name": .., "url": ..} *)
OrganizationScript ==
  Script("text", TRUE, "object", PyStr("Organization"), {"name", "url"})
(* {"@type": "Recipe", "name": ..} *)
RecipeScript == Script("text", TRUE, "object", PyStr("Recipe"), {"name"})
(* {"@type": ["Article"], "headline": ..} *)
ListTypeScript == Script("text", TRUE, "object", PyList("Article"), {"headline"})

ScriptPool ==
  {NoStringScript, InvalidJsonScript, ArrayJsonScript, UntypedScript, EmptyTypeScript,
   ArticleScript, OrganizationScript, RecipeScript, ListTypeScript}

Item(itemtype, props) == [itemtype |-> itemtype, props |-> props]

SchemaOrg == <<"https:", "/", "/", "schema.org", "/">>

(* itemtype="https://schema.org/Organization" with a descendant itemprop="name" *)
OrganizationItem == Item(SchemaOrg \o <<"Organization">>, {"name"})
(* itemtype="Article" with every required field and a recommended one *)
ArticleItem == Item(<<"Article">>, {"headline", "author", "datePublished", "publisher"})
(* itemtype="https://schema.org/Recipe" *)
RecipeItem == Item(SchemaOrg \o <<"Recipe">>, {"name"})
(* itemtype="https://schema.org/" : the last segment is empty *)
TrailingSlashItem == Item(SchemaOrg, {"name"})
(* itemtype="https://schema.org/Product" *)
ProductItem == Item(SchemaOrg \o <<"Product">>, {"name", "image"})

ItemPool == {OrganizationItem, ArticleItem, RecipeItem, TrailingSlashItem, ProductItem}

Section(class, id, text) == [class |-> class, id |-> id, text |-> text]

FaqBox == <<"f", "a", "q", "-", "b", "o", "x">>
Main == <<"m", "a", "i", "n">>

(* <div class="faq"> *)
FaqClassSection == Section(<<F>>, <<>>, "Pytania i odpowiedzi")
(* <div class="faq-box"> *)
FaqBoxSection == Section(<<FaqBox>>, <<>>, "Czy to dziala? Tak.")
(* <section id="FAQs"> *)
FaqIdSection == Section(<<>>, <<"F", "A", "Q", "s">>, "Czeste pytania")
(* <div class="FAQ"> *)
UpperClassSection == Section(<<<<"F", "A", "Q">>>>, <<>>, "FAQ")
(* <div class="main" id="main"> *)
MainSection == Section(<<Main>>, Main, "Tresc strony")
(* <div class="main faq" id="main"> *)
TwoTokenSection == Section(<<Main, F>>, Main, "Pytanie? Odpowiedz.")

SectionPool ==
  {FaqClassSection, FaqBoxSection, FaqIdSection, UpperClassSection, MainSection,
   TwoTokenSection}

Soup(scripts, microdata, sections, h1, h2, p, lists, images, links, words) ==
  [scripts |-> scripts, microdata |-> microdata, sections |-> sections,
   h1 |-> h1, h2 |-> h2, h3 |-> 0, p |-> p, lists |-> lists, images |-> images,
   links |-> links, words |-> words]

(* An empty page. *)
BlankDoc == Soup(<<>>, <<>>, <<>>, 0, 0, 0, 0, 0, 0, 0)

(* Pages that vary in their structured data. *)
SchemaDocs ==
  {Soup(s, m, <<>>, 1, 1, 3, 1, 1, 3, 300) :
     s \in SeqsUpTo(ScriptPool, MaxScripts), m \in SeqsUpTo(ItemPool, MaxItems)}

(* Pages that vary in their content counts. *)
ContentDocs ==
  {Soup(s, m, f, c[1], c[2], c[3], c[4], c[5], c[6], c[7]) :
     s \in {<<>>, <<InvalidJsonScript>>},
     m \in {<<>>, <<TrailingSlashItem>>},
     f \in {<<>>, <<FaqClassSection>>},
     c \in (0..MaxH1) \X (0..1) \X {2, 3} \X (0..1) \X (0..1) \X {2, 3} \X {299, 300}}

(* Pages that vary in their div/section elements. *)
FaqDocs ==
  {Soup(<<>>, <<>>, f, 1, 1, 3, 1, 1, 3, 300) : f \in SeqsUpTo(SectionPool, MaxSections)}

Docs == SchemaDocs \cup ContentDocs \cup FaqDocs

(* The pages audited in turn by one auditor object. *)
RepeatDocs ==
  {BlankDoc,
   Soup(<<ArticleScript, InvalidJsonScript>>, <<>>, <<>>, 1, 1, 3, 1, 1, 3, 300),
   Soup(<<>>, <<OrganizationItem>>, <<FaqClassSection>>, 2, 0, 2, 0, 0, 2, 299),
   Soup(<<ListTypeScript>>, <<RecipeItem>>, <<FaqBoxSection>>, 1, 1, 3, 1, 1, 3, 300),
   Soup(<<OrganizationScript>>, <<ProductItem>>, <<>>, 0, 1, 3, 0, 1, 3, 300)}

(* ------------------------------ actions -------------------------------- *)
Init ==
  /\ schema_types = SchemaTypesInit
  /\ doc = BlankDoc
  /\ audit = NoneResult
  /\ log = <<>>

(* analyze_page(url) when the page is fetched and parsed into soup. *)
Audit(soup) ==
  /\ doc' = soup
  /\ audit' = analyze_page(soup, schema_types, NewSchemaData)
  /\ log' = Append(log, [fetched |-> TRUE, doc |-> soup, audit |-> audit'])
  /\ UNCHANGED schema_types

(* analyze_page(url) when requests.get raises: prints and returns None. *)
AuditFails ==
  /\ audit' = NoneResult
  /\ log' = Append(log, [fetched |-> FALSE, doc |-> doc, audit |-> NoneResult])
  /\ UNCHANGED <<schema_types, doc>>

(* main(): one auditor, one analyze_page call. *)
AnalyzePage == log = <<>> /\ \E soup \in Docs : Audit(soup)

AnalyzePageFails == log = <<>> /\ AuditFails

Next == AnalyzePage \/ AnalyzePageFails

Spec == Init /\ [][Next]_vars

(* One auditor object used for several analyze_page calls. *)
AnalyzePageAgain == Len(log) < MaxAudits /\ \E soup \in RepeatDocs : Audit(soup)

AnalyzePageFailsAgain == Len(log) < MaxAudits /\ AuditFails

NextRepeat == AnalyzePageAgain \/ AnalyzePageFailsAgain

SpecRepeat == Init /\ [][NextRepeat]_vars

(* ------------------------------ claims --------------------------------- *)
Audited == log # <<>> /\ log[Len(log)].fetched

Registered == {"Article", "Product", "Organization", "WebPage", "FAQPage"}

FieldNames ==
  UNION {Range(SchemaTypesInit[t].required) \cup Range(SchemaTypesInit[t].recommended) :
           t \in Registered}

RequiredSet(t) == Range(SchemaTypesInit[t].required)

(* A JSON-LD block that parses to a single object. *)
ParsesToObject(script) ==
  script.string = "text" /\ script.valid /\ script.value = "object"

(* The type name an itemtype ends in ("" when it is empty or ends in "/"). *)
TypeSegment(itemtype) ==
  IF itemtype = <<>> \/ itemtype[Len(itemtype)] = "/" THEN "" ELSE itemtype[Len(itemtype)]

(* The JSON-LD objects of type t, and the microdata elements of type t. *)
ScriptsOfType(t) ==
  {i \in DOMAIN doc.scripts :
     ParsesToObject(doc.scripts[i]) /\ doc.scripts[i].type = PyStr(t)}

ItemsOfType(t) ==
  {j \in DOMAIN doc.microdata : TypeSegment(doc.microdata[j].itemtype) = t}

Count(seq, x) == Cardinality({k \in DOMAIN seq : seq[k] = x})

(* C1: missing_required holds exactly one {type, field} entry for every    *)
(* instance of a registered type and every required field of that type     *)
(* absent from the instance's own field set; nothing for a present field,  *)
(* a recommended field or an unregistered type.                            *)
C1_MissingRequiredExact ==
  Audited =>
    LET missing == audit.schema_analysis.missing_required
    IN /\ \A k \in DOMAIN missing :
            /\ missing[k].type \in Registered
            /\ missing[k].field \in RequiredSet(missing[k].type)
       /\ \A t \in Registered : \A f \in FieldNames :
            Count(missing, [type |-> t, field |-> f]) =
              IF f \in RequiredSet(t)
                THEN Cardinality({i \in ScriptsOfType(t) : f \notin doc.scripts[i].keys})
                     + Cardinality({j \in ItemsOfType(t) : f \notin doc.microdata[j].props})
                ELSE 0

(* A JSON-LD Article with headline present and author absent next to a     *)
(* microdata Organization without url and an unregistered Recipe.          *)
C1_Witness ==
  /\ Audited
  /\ ArticleScript \in Range(doc.scripts)
  /\ OrganizationItem \in Range(doc.microdata)
  /\ RecipeItem \in Range(doc.microdata)
  /\ audit.schema_analysis.missing_required =
       <<[type |-> "Article", field |-> "author"],
         [type |-> "Article", field |-> "datePublished"],
         [type |-> "Organization", field |-> "url"]>>

(* C2 as stated: has_schema is true iff some itemtype element with a       *)
(* non-empty last segment contributed a type.                              *)
C2_HasSchemaIffInstance ==
  Audited =>
    (audit.has_schema <=>
       \E j \in DOMAIN doc.microdata : TypeSegment(doc.microdata[j].itemtype) # "")

(* C2 amended: has_schema is true iff the document has at least one        *)
(* element carrying an itemtype attribute, whether or not a type was       *)
(* produced from it; elements with an empty type segment add no type.      *)
C2_HasSchemaIffItemtypeElement ==
  Audited =>
    /\ audit.has_schema <=> doc.microdata # <<>>
    /\ (doc.scripts = <<>>
          /\ \A j \in DOMAIN doc.microdata : TypeSegment(doc.microdata[j].itemtype) = "")
         => audit.schema_analysis.found_types = <<>>

C2_Witness ==
  /\ Audited
  /\ doc.microdata = <<TrailingSlashItem>>
  /\ audit.has_schema
  /\ audit.schema_analysis.found_types = <<>>

(* The JSON-LD blocks whose text is not valid JSON or is not one object. *)
IsBadBlock(script) == ~ParsesToObject(script)

WithoutBadBlocks(soup) ==
  [soup EXCEPT !.scripts = SelectSeq(@, LAMBDA b : ~IsBadBlock(b))]

(* C3: a JSON-LD block that is not valid JSON, or not one object, does not *)
(* abort the audit: a PageAudit is returned with has_json_ld = true, and   *)
(* found_types and missing_required are those of the same document with    *)
(* the bad blocks removed.                                                 *)
C3_BadBlockIgnored ==
  (log # <<>> /\ log[Len(log)].fetched
     /\ \E i \in DOMAIN log[Len(log)].doc.scripts :
          IsBadBlock(log[Len(log)].doc.scripts[i])) =>
    /\ audit.returned = "PageAudit"
    /\ audit.has_json_ld
    /\ LET clean == analyze_schema(WithoutBadBlocks(doc), SchemaTypesInit,
                                   [has_schema |-> FALSE, has_json_ld |-> FALSE,
                                    found_types |-> <<>>, missing_required |-> <<>>,
                                    recommendations |-> <<>>])
       IN /\ audit.schema_analysis.found_types = clean.found_types
          /\ audit.schema_analysis.missing_required = clean.missing_required

(* An invalid block in front of a valid Article block and a microdata item. *)
C3_Witness ==
  /\ Audited
  /\ doc.scripts = <<InvalidJsonScript, ArticleScript>>
  /\ doc.microdata = <<OrganizationItem>>
  /\ audit.has_json_ld
  /\ audit.schema_analysis.found_types = <<PyStr("Article"), PyStr("Organization")>>
  /\ Len(audit.schema_analysis.missing_required) = 3

(* class="faq-box" and an id without "faq" *)
IsFaqBoxOnly(section) ==
  /\ section.class = <<FaqBox>>
  /\ ~\E k \in 1..(Len(section.id) - 2) :
        /\ section.id[k] \in {"f", "F"}
        /\ section.id[k + 1] \in {"a", "A"}
        /\ section.id[k + 2] \in {"q", "Q"}

(* A class token equal to "faq", or an id containing "faq" in any case. *)
MatchesFaq(section) ==
  \/ \E i \in DOMAIN section.class : section.class[i] = <<"f", "a", "q">>
  \/ \E k \in 1..(Len(section.id) - 2) :
        /\ section.id[k] \in {"f", "F"}
        /\ section.id[k + 1] \in {"a", "A"}
        /\ section.id[k + 2] \in {"q", "Q"}

(* C4 as stated: a div/section with class "faq-box" (id without "faq") is  *)
(* detected, its text is in faq_sections and the FAQ recommendation is not *)
(* emitted.                                                                *)
C4_FaqBoxDetected ==
  Audited =>
    \A i \in DOMAIN doc.sections :
      IsFaqBoxOnly(doc.sections[i]) =>
        /\ doc.sections[i].text \in Range(audit.faq_sections)
        /\ AddFaq \notin Range(audit.recommendations)

(* C4 amended: a div/section with class "faq-box" (id without "faq") is    *)
(* not detected; faq_sections holds, in document order, the text of each   *)
(* div/section having a class token equal to "faq" or an id containing     *)
(* "faq" in any case, and the FAQ recommendation is emitted iff there is   *)
(* no such element.                                                        *)
C4_FaqTokenDetected ==
  Audited =>
    LET matching == SelectSeq(doc.sections, MatchesFaq)
    IN /\ Len(audit.faq_sections) = Len(matching)
       /\ \A k \in DOMAIN matching : audit.faq_sections[k] = matching[k].text
       /\ (AddFaq \in Range(audit.recommendations)) <=> (matching = <<>>)
       /\ (\A i \in DOMAIN doc.sections : IsFaqBoxOnly(doc.sections[i]))
            => audit.faq_sections = <<>>

C4_Witness ==
  /\ Audited
  /\ doc.sections = <<FaqBoxSection, TwoTokenSection>>
  /\ audit.faq_sections = <<"Pytanie? Odpowiedz.">>
  /\ AddFaq \notin Range(audit.recommendations)

(* The rule ladder: message k is emitted iff condition k holds. *)
Ladder ==
  <<AddH1, OneH1, AddH2, AddSchema, MoreParagraphs, AddLists, AddImages, MoreWords,
    AddFaq, MoreLinks>>

LadderCondition(k) ==
  CASE k = 1 -> doc.h1 = 0
    [] k = 2 -> doc.h1 > 1
    [] k = 3 -> doc.h2 = 0
    [] k = 4 -> ~audit.has_schema /\ ~audit.has_json_ld
    [] k = 5 -> doc.p < 3
    [] k = 6 -> doc.lists = 0
    [] k = 7 -> doc.images = 0
    [] k = 8 -> doc.words < 300
    [] k = 9 -> audit.faq_sections = <<>>
    [] k = 10 -> doc.links < 3

LadderIndex(msg) == CHOOSE k \in DOMAIN Ladder : Ladder[k] = msg

(* C5: the recommendations are the rule ladder filtered by the rule        *)
(* conditions, in ladder order, each message at most once; add-H1 and      *)
(* only-one-H1 are never both present and neither is present for h1 = 1.   *)
C5_RecommendationLadder ==
  Audited =>
    LET recs == audit.recommendations
    IN /\ \A i \in DOMAIN recs : recs[i] \in Range(Ladder)
       /\ \A k \in DOMAIN Ladder : (Ladder[k] \in Range(recs)) <=> LadderCondition(k)
       /\ \A i, j \in DOMAIN recs : i < j => LadderIndex(recs[i]) < LadderIndex(recs[j])
       /\ ~(AddH1 \in Range(recs) /\ OneH1 \in Range(recs))
       /\ doc.h1 = 1 => (AddH1 \notin Range(recs) /\ OneH1 \notin Range(recs))

(* Two h1 elements on a page that triggers other rules too. *)
C5_Witness ==
  /\ Audited
  /\ doc.h1 = 2
  /\ doc.words = 299
  /\ doc.links = 2
  /\ audit.recommendations[1] = OneH1
  /\ audit.recommendations[Len(audit.recommendations)] = MoreLinks
  /\ Len(audit.recommendations) >= 4

(* C6: suggested_fixes is the basic fix iff neither flag is set, followed  *)
(* by one missing_field fix per entry of missing_required, in order, each  *)
(* carrying the registered example of its (type, field).                   *)
C6_FixPerFinding ==
  Audited =>
    LET fixes == audit.suggested_fixes
        missing == audit.schema_analysis.missing_required
        b == IF ~audit.has_schema /\ ~audit.has_json_ld THEN 1 ELSE 0
    IN /\ Len(fixes) = b + Len(missing)
       /\ b = 1 => fixes[1] = BasicFix
       /\ \A k \in DOMAIN missing :
            /\ fixes[b + k].type = "missing_field"
            /\ fixes[b + k].code = Examples[missing[k].type][missing[k].field]
            /\ fixes[b + k].code # ""
            /\ fixes[b + k].description =
                 <<"Dodaj wymagane pole", missing[k].field, "dla typu", missing[k].type>>

C6_Witness ==
  /\ Audited
  /\ Len(audit.schema_analysis.missing_required) >= 3
  /\ [type |-> "Organization", field |-> "url"]
       \in Range(audit.schema_analysis.missing_required)
  /\ Len(audit.suggested_fixes) = Len(audit.schema_analysis.missing_required)

(* The type values of the instances: C7 as stated counts every JSON-LD     *)
(* object that has an "@type" key.                                         *)
TypedItems == {j \in DOMAIN doc.microdata : TypeSegment(doc.microdata[j].itemtype) # ""}

ScriptsWithTypeKey ==
  {i \in DOMAIN doc.scripts :
     ParsesToObject(doc.scripts[i]) /\ doc.scripts[i].type.tag # "none"}

ScriptsWithTruthyType ==
  {i \in DOMAIN doc.scripts :
     /\ ParsesToObject(doc.scripts[i])
     /\ doc.scripts[i].type.tag # "none"
     /\ doc.scripts[i].type.val # ""}

(* C7 as stated: one found_types entry per JSON-LD object with an @type    *)
(* field and per microdata element with a non-empty type segment.          *)
C7_OneEntryPerTypeField ==
  Audited =>
    Len(audit.schema_analysis.found_types)
      = Cardinality(ScriptsWithTypeKey) + Cardinality(TypedItems)

(* C7 amended: found_types holds one entry per JSON-LD object whose @type  *)
(* value is non-empty (truthy) and per microdata element with a non-empty  *)
(* type segment, never deduplicated: k occurrences of a type give k        *)
(* entries and k sets of findings; an unregistered type appears in         *)
(* found_types and produces no finding.                                    *)
C7_OneEntryPerInstance ==
  Audited =>
    LET found == audit.schema_analysis.found_types
        missing == audit.schema_analysis.missing_required
    IN /\ Len(found) = Cardinality(ScriptsWithTruthyType) + Cardinality(TypedItems)
       /\ \A v \in Range(found) \cup {PyStr("Recipe"), PyStr("Article")} :
            Count(found, v) =
              Cardinality({i \in ScriptsWithTruthyType : doc.scripts[i].type = v})
              + Cardinality({j \in TypedItems :
                               PyStr(TypeSegment(doc.microdata[j].itemtype)) = v})
       /\ \A t \in Registered :
            Cardinality({k \in DOMAIN missing : missing[k].type = t}) =
              Cardinality({x \in ScriptsOfType(t) \X RequiredSet(t) :
                             x[2] \notin doc.scripts[x[1]].keys})
              + Cardinality({x \in ItemsOfType(t) \X RequiredSet(t) :
                               x[2] \notin doc.microdata[x[1]].props})
       /\ \A k \in DOMAIN missing : missing[k].type # "Recipe"

(* Two Article blocks and two Recipe elements. *)
C7_Witness ==
  /\ Audited
  /\ doc.scripts = <<ArticleScript, ArticleScript>>
  /\ doc.microdata = <<RecipeItem, RecipeItem>>
  /\ audit.schema_analysis.found_types =
       <<PyStr("Article"), PyStr("Article"), PyStr("Recipe"), PyStr("Recipe")>>
  /\ Len(audit.schema_analysis.missing_required) = 4

CompletedScripts ==
  {i \in DOMAIN doc.scripts :
     /\ ParsesToObject(doc.scripts[i])
     /\ doc.scripts[i].type.tag = "str"
     /\ doc.scripts[i].type.val # ""}

(* C9: a JSON-LD block contributes its type and all its findings, or, when *)
(* it is skipped or fails part-way (an @type that is not a plain string),  *)
(* nothing: found_types holds entries of completed blocks only.            *)
C9_AllOrNothing ==
  Audited =>
    /\ Len(audit.schema_analysis.found_types)
         = Cardinality(CompletedScripts) + Cardinality(TypedItems)
    /\ \A k \in DOMAIN audit.schema_analysis.found_types :
         audit.schema_analysis.found_types[k].tag = "str"

(* C10: the basic fix is present iff the schema.org recommendation is;     *)
(* with it, found_types and missing_required are empty and it is the only  *)
(* fix; with a non-empty missing_required neither is present.              *)
C10_BasicExcludesMissing ==
  Audited =>
    LET fixes == audit.suggested_fixes
        basic == \E k \in DOMAIN fixes : fixes[k].type = "basic"
        rec == AddSchema \in Range(audit.recommendations)
    IN /\ basic <=> rec
       /\ basic =>
            /\ audit.schema_analysis.found_types = <<>>
            /\ audit.schema_analysis.missing_required = <<>>
            /\ Len(fixes) = 1
       /\ audit.schema_analysis.missing_required # <<>> => (~basic /\ ~rec)
       /\ ~(basic /\ \E k \in DOMAIN fixes : fixes[k].type = "missing_field")

C10_Witness ==
  /\ Audited
  /\ doc.scripts = <<>>
  /\ doc.microdata = <<>>
  /\ audit.suggested_fixes = <<BasicFix>>
  /\ AddSchema \in Range(audit.recommendations)

====
